---- MODULE Spec2Model ----
(***************************************************************************)
(* Model of simulacro.py: the in-memory inventory (product catalog) and    *)
(* the sales list, with the operations of the main menu.                   *)
(*                                                                         *)
(* Money is held in integer cents; a price typed at a prompt is held in    *)
(* thousandths (mills) until round(.., 2) turns it into cents.  A float    *)
(* that is not a number (the text "nan" is accepted by float()) is the     *)
(* value NaN.  Where round(.., 2) meets an exact half cent the binary      *)
(* float decides the direction, so both neighbours are possible results.   *)
(*                                                                         *)
(* Every function of the module can be called in any order; main_menu      *)
(* itself calls preload_demo_sales once, before the first menu choice.     *)
(* The menu entries that only print (show_inventory, consult_product,      *)
(* consult_sales, sales_by_brand, income_report) change nothing and are    *)
(* left out; top_n_products and inventory_performance are kept for what    *)
(* they print.                                                             *)
(***************************************************************************)
EXTENDS Integers, Sequences, FiniteSets, TLC

VARIABLES
    inventory,          \* product_id -> product dict
    sales,              \* list of sale records
    _next_product_id,   \* the id the next registered product gets
    _next_sale_id,      \* the id the next sale gets
    usedIds,            \* history: every key inventory has ever had
    last,               \* the operation last run: what was typed, what it printed
    nops                \* operations run so far; also the clock datetime.now() reads

vars == <<inventory, sales, _next_product_id, _next_sale_id, usedIds, last, nops>>

ledger == <<inventory, sales, _next_product_id, _next_sale_id>>

\* ------------------------------------------------------------------ bounds
\* Number of menu operations in one run.
MaxOps == 2

\* ------------------------------------------------------------- float values
NaN == [nan |-> TRUE, cents |-> 0]

Num(c) == [nan |-> FALSE, cents |-> c]

\* round(x, 2) of the exact value num/den cents (num >= 0, den > 0): the set of
\* results a float computation can give; two at an exact half, else one.
Round2(num, den) ==
    LET q == num \div den
        r == num % den
    IN  IF 2 * r < den THEN {q}
        ELSE IF 2 * r > den THEN {q + 1}
        ELSE {q, q + 1}

\* ------------------------------------------------------------ text values
\* str.strip() on the texts typed in this model.
strip(s) ==
    CASE s = " "     -> ""
      [] s = " Cam " -> "Cam"
      [] OTHER       -> s

\* str.lower() on the texts typed in this model.
lower(s) ==
    CASE s = "Employee" -> "employee"
      [] s = "VIP"      -> "vip"
      [] s = "Gold"     -> "gold"
      [] s = "Y"        -> "y"
      [] OTHER          -> s

\* float(text): ValueError, or a float given in mills, or nan.
float_(s) ==
    CASE s = "abc"   -> [err |-> TRUE,  nan |-> FALSE, mills |-> 0]
      [] s = "nan"   -> [err |-> FALSE, nan |-> TRUE,  mills |-> 0]
      [] s = "-1"    -> [err |-> FALSE, nan |-> FALSE, mills |-> -1000]
      [] s = "0.05"  -> [err |-> FALSE, nan |-> FALSE, mills |-> 50]
      [] s = "1.254" -> [err |-> FALSE, nan |-> FALSE, mills |-> 1254]

\* int(text): ValueError, or an integer.
int_(s) ==
    CASE s = "x"   -> [err |-> TRUE,  val |-> 0]
      [] s = "5.0" -> [err |-> TRUE,  val |-> 0]
      [] s = "-1"  -> [err |-> FALSE, val |-> -1]
      [] s = "0"   -> [err |-> FALSE, val |-> 0]
      [] s = "6"   -> [err |-> FALSE, val |-> 6]
      [] s = "7"   -> [err |-> FALSE, val |-> 7]
      [] s = "10"  -> [err |-> FALSE, val |-> 10]

\* round(price, 2) of a float held in mills (not negative, or nan).
round_price(f) ==
    IF f.nan THEN {NaN} ELSE {Num(c) : c \in Round2(f.mills, 10)}

\* ---------------------------------------------------------------- catalog
Product(name, brand, category, price, stock, warranty, initial) ==
    [name |-> name, brand |-> brand, category |-> category, price |-> price,
     stock |-> stock, warranty_months |-> warranty, initial_stock |-> initial]

SeedInventory ==
    (1 :> Product("Aurora Headphones", "Soundix", "Audio", Num(7999), 25, 12, 25)) @@
    (2 :> Product("Volt Charger 65W", "Ampere", "Power", Num(3950), 40, 24, 40)) @@
    (3 :> Product("Nexus 10 Tablet", "NovaTech", "Computers", Num(24900), 10, 12, 10)) @@
    (4 :> Product("PixelCam 4K", "OptiSight", "Cameras", Num(49900), 6, 24, 6)) @@
    (5 :> Product("HomeSyx SmartPlug", "HomeSyx", "SmartHome", Num(1999), 60, 6, 60))

Max(S) == CHOOSE m \in S : \A x \in S : x <= m

Init ==
    /\ inventory = SeedInventory
    /\ sales = <<>>
    /\ _next_product_id = Max(DOMAIN SeedInventory) + 1
    /\ _next_sale_id = 1
    /\ usedIds = DOMAIN SeedInventory
    /\ last = [op |-> "load", msg |-> ""]
    /\ nops = 0

\* One more menu operation; usedIds records every id the catalog has held.
Step(op) ==
    /\ nops' = nops + 1
    /\ usedIds' = usedIds \cup DOMAIN inventory'
    /\ last'.op = op

\* ------------------------------------------------------- register_product
NameInputs == {"", " Cam "}
BrandInputs == {"", "Kodo"}
CategoryInputs == {"", "Toys"}
\* safe_float(min_val=0.0) hands back the first text whose float is not < 0.
RegisterPriceInputs == {"1.254", "nan"}
\* safe_int(min_val=0) hands back the first text whose int is not < 0.
RegisterStockInputs == {"0", "10"}
RegisterWarrantyInputs == {"6"}

\* The key computed anew from the catalog, as at load time.
new_product_id_fromCatalog == Max(DOMAIN inventory) + 1

\* The key the new product is stored under.
new_product_id == _next_product_id

register_product ==
    /\ nops < MaxOps
    /\ \E name_in \in NameInputs, brand_in \in BrandInputs :
        LET name == strip(name_in)
            brand == strip(brand_in)
        IN  \/ /\ name = ""
               /\ last' = [op |-> "register_product", msg |-> "Product name cannot be empty."]
               /\ UNCHANGED ledger
               /\ Step("register_product")
            \/ /\ name # "" /\ brand = ""
               /\ last' = [op |-> "register_product", msg |-> "Brand cannot be empty."]
               /\ UNCHANGED ledger
               /\ Step("register_product")
            \/ /\ name # "" /\ brand # ""
               /\ \E category_in \in CategoryInputs, price_in \in RegisterPriceInputs,
                     stock_in \in RegisterStockInputs, warranty_in \in RegisterWarrantyInputs :
                     LET category == IF strip(category_in) = "" THEN "General"
                                     ELSE strip(category_in)
                         stock == int_(stock_in).val
                         warranty == int_(warranty_in).val
                     IN  \E price \in round_price(float_(price_in)) :
                           /\ inventory' = (new_product_id :>
                                  Product(name, brand, category, price, stock, warranty, stock))
                                  @@ inventory
                           /\ last' = [op |-> "register_product",
                                       msg |-> "Product registered",
                                       id |-> new_product_id,
                                       name_in |-> name_in, brand_in |-> brand_in,
                                       category_in |-> category_in, price_in |-> price_in,
                                       stock_in |-> stock_in, warranty_in |-> warranty_in]
                           /\ _next_product_id' = _next_product_id + 1
                           /\ UNCHANGED <<sales, _next_sale_id>>
                           /\ Step("register_product")

\* choose_product_id(): asks again until the id is in the inventory.
choose_product_id == DOMAIN inventory

\* --------------------------------------------------------- update_product
\* What is typed at the six prompts of one update.
Form(name, brand, category, price_input, stock_input, warranty_input) ==
    [name |-> name, brand |-> brand, category |-> category,
     price_input |-> price_input, stock_input |-> stock_input,
     warranty_input |-> warranty_input]

UpdateForms ==
    { Form("", "", "", "", "", ""),
      Form(" Cam ", "Kodo", "Toys", "", "", ""),
      Form("", "", "", "1.254", "7", "6"),
      Form(" ", "", " ", "abc", "0", "-1"),
      Form("", "Kodo", "", "-1", "5.0", "x"),
      Form("", "", "", "nan", "-1", ""),
      Form("", "", "Toys", "0.05", "", "10") }

\* The prices an update can leave in the product.
update_price(p, price_input) ==
    IF price_input = "" THEN {p.price}
    ELSE LET f == float_(price_input)
         IN  IF f.err THEN {p.price}
             ELSE IF (~f.nan) /\ f.mills < 0 THEN {p.price}
             ELSE round_price(f)

update_stock(p, stock_input) ==
    IF stock_input = "" THEN p.stock
    ELSE LET n == int_(stock_input)
         IN  IF n.err THEN p.stock
             ELSE IF n.val < 0 THEN p.stock
             ELSE n.val

update_warranty(p, warranty_input) ==
    IF warranty_input = "" THEN p.warranty_months
    ELSE LET n == int_(warranty_input)
         IN  IF n.err THEN p.warranty_months
             ELSE IF n.val < 0 THEN p.warranty_months
             ELSE n.val

update_product ==
    /\ nops < MaxOps
    /\ \E pid \in choose_product_id, form \in UpdateForms :
        LET p == inventory[pid]
            name == strip(form.name)
            brand == strip(form.brand)
            category == strip(form.category)
        IN  \E price \in update_price(p, strip(form.price_input)) :
              /\ inventory' = [inventory EXCEPT ![pid] =
                    [p EXCEPT !.name = IF name # "" THEN name ELSE p.name,
                              !.brand = IF brand # "" THEN brand ELSE p.brand,
                              !.category = IF category # "" THEN category ELSE p.category,
                              !.price = price,
                              !.stock = update_stock(p, strip(form.stock_input)),
                              !.warranty_months =
                                  update_warranty(p, strip(form.warranty_input))]]
              /\ last' = [op |-> "update_product", msg |-> "Product updated.",
                          pid |-> pid, form |-> form]
              /\ UNCHANGED <<sales, _next_product_id, _next_sale_id>>
              /\ Step("update_product")

\* --------------------------------------------------------- delete_product
ConfirmInputs == {"Y", "n"}

\* The test made on the wrong key of the sale.
referenced_bySaleId(pid) == \E i \in 1..Len(sales) : sales[i].sale_id = pid

\* The test left out.
referenced_never(pid) == FALSE

\* any(s['product_id'] == pid for s in sales)
referenced(pid) == \E i \in 1..Len(sales) : sales[i].product_id = pid

delete_product ==
    /\ nops < MaxOps
    /\ \E pid \in choose_product_id, confirm_in \in ConfirmInputs :
        LET confirm == lower(strip(confirm_in))
        IN  /\ IF confirm = "y"
               THEN IF referenced(pid)
                    THEN /\ last' = [op |-> "delete_product", pid |-> pid,
                                     confirm |-> confirm,
                                     msg |-> "Cannot delete product with historical sales records."]
                         /\ UNCHANGED inventory
                    ELSE /\ inventory' = [q \in DOMAIN inventory \ {pid} |-> inventory[q]]
                         /\ last' = [op |-> "delete_product", pid |-> pid,
                                     confirm |-> confirm, msg |-> "Product deleted."]
               ELSE /\ last' = [op |-> "delete_product", pid |-> pid,
                                confirm |-> confirm, msg |-> "Deletion cancelled."]
                    /\ UNCHANGED inventory
            /\ UNCHANGED <<sales, _next_product_id, _next_sale_id>>
            /\ Step("delete_product")

\* ------------------------------------------------------------------ sales
\* The discount in percent.
calculate_discount_pct(client_type) ==
    LET t == lower(client_type)
    IN  IF t = "vip" THEN 10
        ELSE IF t = "employee" THEN 30
        ELSE IF t = "wholesale" THEN 15
        ELSE 0

\* revenue_calc = lambda unit_price, qty: round(unit_price * qty, 2)
revenue_calc(unit_price, qty) ==
    IF unit_price.nan THEN {NaN}
    ELSE {Num(c) : c \in Round2(unit_price.cents * qty, 1)}

\* register_sale: discount_amount = round(gross * (discount_pct / 100.0), 2)
\*                net = round(gross - discount_amount, 2)
sale_net(gross, discount_pct) ==
    IF gross.nan THEN {NaN}
    ELSE {Num(c) : c \in
            UNION {Round2(gross.cents - d, 1) : d \in Round2(gross.cents * discount_pct, 100)}}

\* preload_demo_sales: net = round(gross * (1 - discount_pct / 100.0), 2)
demo_net(gross, discount_pct) ==
    IF gross.nan THEN {NaN}
    ELSE {Num(c) : c \in Round2(gross.cents * (100 - discount_pct), 100)}

Sale(sale_id, client, client_type, pid, p, qty, discount_pct, date, gross, net) ==
    [sale_id |-> sale_id, client |-> client, client_type |-> client_type,
     product_id |-> pid, product_name |-> p.name, brand |-> p.brand,
     quantity |-> qty, unit_price |-> p.price, discount_pct |-> discount_pct,
     date |-> date, gross |-> gross, net |-> net]

\* The check with the comparison off by one.
insufficient_offByOne(qty, product) == qty >= product.stock

\* "Validate stock": the sale is aborted.
insufficient(qty, product) == qty > product.stock

\* The increment left out.
sale_id_after_same(id) == id

\* _next_sale_id += 1
sale_id_after(id) == id + 1

ClientInputs == {"", "Ana"}
ClientTypeInputs == {"", "Employee", "Gold"}
\* safe_int(min_val=1) hands back the first integer typed that is >= 1.
QtyInputs == {1, 5, 70}

register_sale ==
    /\ nops < MaxOps
    /\ \E client_in \in ClientInputs :
        LET client == strip(client_in)
        IN  \/ /\ client = ""
               /\ last' = [op |-> "register_sale", msg |-> "Client name required."]
               /\ UNCHANGED ledger
               /\ Step("register_sale")
            \/ /\ client # ""
               /\ \E type_in \in ClientTypeInputs, pid \in choose_product_id, qty \in QtyInputs :
                     LET typed == lower(strip(type_in))
                         client_type == IF typed = "" THEN "regular" ELSE typed
                         product == inventory[pid]
                     IN  IF insufficient(qty, product)
                         THEN /\ last' = [op |-> "register_sale", msg |-> "Insufficient stock.",
                                          pid |-> pid, qty |-> qty, type_in |-> type_in]
                              /\ UNCHANGED ledger
                              /\ Step("register_sale")
                         ELSE LET discount_pct == calculate_discount_pct(client_type)
                              IN  \E gross \in revenue_calc(product.price, qty) :
                                  \E net \in sale_net(gross, discount_pct) :
                                    /\ inventory' = [inventory EXCEPT
                                                       ![pid].stock = product.stock - qty]
                                    /\ sales' = Append(sales,
                                          Sale(_next_sale_id, client, client_type, pid,
                                               product, qty, discount_pct, nops, gross, net))
                                    /\ _next_sale_id' = sale_id_after(_next_sale_id)
                                    /\ last' = [op |-> "register_sale", msg |-> "Sale recorded.",
                                                pid |-> pid, qty |-> qty, type_in |-> type_in]
                                    /\ UNCHANGED _next_product_id
                                    /\ Step("register_sale")

\* ----------------------------------------------------- preload_demo_sales
Demo(client, client_type, pid, quantity) ==
    [client |-> client, client_type |-> client_type, product_id |-> pid,
     quantity |-> quantity]

demo ==
    << Demo("Alice", "vip", 1, 3),
       Demo("Bob", "regular", 2, 5),
       Demo("Charlie Co.", "wholesale", 5, 20),
       Demo("Diana", "employee", 3, 1),
       Demo("Eve", "regular", 4, 2) >>

Min(a, b) == IF a <= b THEN a ELSE b

\* The demo quantity taken whatever the stock.
demo_qty_unclamped(d, p) == d.quantity

\* The quantity a demo sale takes from a product.
demo_qty(d, p) == Min(d.quantity, p.stock)

\* One turn of the loop "for d in demo", from the ledger st: the ledgers after it.
demo_step(d, st) ==
    LET pid == d.product_id
    IN  IF pid \notin DOMAIN st.inventory THEN {st}
        ELSE LET p == st.inventory[pid]
                 qty == demo_qty(d, p)
                 discount_pct == calculate_discount_pct(d.client_type)
             IN  IF qty <= 0 THEN {st}
                 ELSE { [inventory |-> [st.inventory EXCEPT ![pid].stock = p.stock - qty],
                         sales |-> Append(st.sales,
                             Sale(st.next, d.client, d.client_type, pid, p, qty,
                                  discount_pct, nops, gn[1], gn[2])),
                         next |-> st.next + 1]
                        : gn \in UNION { {<<gross, net>> : net \in demo_net(gross, discount_pct)}
                                         : gross \in revenue_calc(p.price, qty) } }

\* The ledgers after the first i turns of the loop, from the ledger st0.
RECURSIVE preload_upto(_, _)
preload_upto(i, st0) ==
    IF i = 0 THEN {st0}
    ELSE UNION { demo_step(demo[i], st) : st \in preload_upto(i - 1, st0) }

preload_demo_sales ==
    /\ nops < MaxOps
    /\ \E st \in preload_upto(Len(demo), [inventory |-> inventory, sales |-> sales,
                                       next |-> _next_sale_id]) :
        /\ inventory' = st.inventory
        /\ sales' = st.sales
        /\ _next_sale_id' = st.next
        /\ last' = [op |-> "preload_demo_sales", msg |-> ""]
        /\ UNCHANGED _next_product_id
        /\ Step("preload_demo_sales")

\* ------------------------------------------------------ KeyboardInterrupt
\* Ctrl-C at a prompt of a menu operation: every operation reads all its input
\* before it writes anything, so the ledger is as it was.
keyboard_interrupt ==
    /\ nops < MaxOps
    /\ last' = [op |-> "keyboard_interrupt", msg |-> "Cancelled."]
    /\ UNCHANGED ledger
    /\ Step("keyboard_interrupt")

\* ---------------------------------------------------------------- reports
\* sold[pid]: the quantities of the sales of product pid, summed.
RECURSIVE sold_qty(_, _)
sold_qty(pid, n) ==
    IF n = 0 THEN 0
    ELSE sold_qty(pid, n - 1) + (IF sales[n].product_id = pid THEN sales[n].quantity ELSE 0)

\* The keys of sold, in the order a dict keeps them: by first sale.
RECURSIVE sold_keys(_)
sold_keys(n) ==
    IF n = 0 THEN <<>>
    ELSE LET ks == sold_keys(n - 1)
         IN  IF \E i \in 1..Len(ks) : ks[i] = sales[n].product_id THEN ks
             ELSE Append(ks, sales[n].product_id)

\* sorted(.., key=quantity, reverse=True): stable, so equal quantities keep
\* their order.  insert puts k behind every key that does not sell less.
RECURSIVE insert(_, _)
insert(ks, k) ==
    IF ks = <<>> THEN <<k>>
    ELSE IF sold_qty(Head(ks), Len(sales)) >= sold_qty(k, Len(sales))
         THEN <<Head(ks)>> \o insert(Tail(ks), k)
         ELSE <<k>> \o ks

RECURSIVE sorted_sold(_)
sorted_sold(ks) ==
    IF ks = <<>> THEN <<>>
    ELSE insert(sorted_sold(SubSeq(ks, 1, Len(ks) - 1)), ks[Len(ks)])

\* The lines top_n_products(n) prints.
top_n_lines(n) ==
    LET ranked == sorted_sold(sold_keys(Len(sales)))
    IN  [rank \in 1..Min(n, Len(ranked)) |->
            [name |-> IF ranked[rank] \in DOMAIN inventory
                      THEN inventory[ranked[rank]].name
                      ELSE "Deleted product",
             pid |-> ranked[rank],
             qty |-> sold_qty(ranked[rank], Len(sales))]]

TopN == 3

top_n_products ==
    /\ last.op # "top_n_products"
    /\ last' = IF sales = <<>>
               THEN [op |-> "top_n_products", msg |-> "No sales to report."]
               ELSE [op |-> "top_n_products", msg |-> "Top", lines |-> top_n_lines(TopN)]
    /\ UNCHANGED <<ledger, usedIds, nops>>

\* turnover_pct = sold_qty / initial * 100 (0.0 when initial is 0), compared
\* with a whole number t: the quotient is exact where it equals t, so the
\* comparison is that of sold_qty * 100 with t * initial.
turnover_gt_orEqual(sold, initial, t) == initial > 0 /\ sold * 100 >= t * initial

turnover_gt(sold, initial, t) == initial > 0 /\ sold * 100 > t * initial

turnover_lt(sold, initial, t) == IF initial > 0 THEN sold * 100 < t * initial ELSE 0 < t

FastOver == 50

SlowUnder == 10

\* The status inventory_performance prints for product pid.
status(pid) ==
    LET p == inventory[pid]
        initial == p.initial_stock
        s == sold_qty(pid, Len(sales))
        remaining == p.stock
    IN  IF remaining = 0 THEN "OUT OF STOCK"
        ELSE IF turnover_gt(s, initial, FastOver) THEN "FAST MOVING"
        ELSE IF turnover_lt(s, initial, SlowUnder) THEN "SLOW MOVING"
        ELSE "OK"

inventory_performance ==
    /\ last.op # "inventory_performance"
    /\ last' = IF DOMAIN inventory = {}
               THEN [op |-> "inventory_performance", msg |-> "No inventory."]
               ELSE [op |-> "inventory_performance", msg |-> "Inventory performance:",
                     status |-> [pid \in DOMAIN inventory |-> status(pid)]]
    /\ UNCHANGED <<ledger, usedIds, nops>>

Next ==
    \/ register_product
    \/ update_product
    \/ delete_product
    \/ register_sale
    \/ preload_demo_sales
    \/ keyboard_interrupt
    \/ top_n_products
    \/ inventory_performance

Spec == Init /\ [][Next]_vars
\* ================================================================= claims
\* The step is one call of the menu operation op.
Did(op) == nops' = nops + 1 /\ last'.op = op

\* C1: register_sale on an existing product with stock s and quantity q >= 1:
\* if q <= s the stock becomes s - q and exactly one record is appended to the
\* sales list; if q > s the sale is rejected and the stock of every product, the
\* sales list and the next sale id are unchanged.
C1_SaleAllOrNothing ==
    [][ (Did("register_sale") /\ last'.msg # "Client name required.") =>
          LET pid == last'.pid
              q == last'.qty
              s == inventory[pid].stock
          IN  /\ q >= 1
              /\ IF q <= s
                 THEN /\ last'.msg = "Sale recorded."
                      /\ inventory'[pid].stock = s - q
                      /\ Len(sales') = Len(sales) + 1
                      /\ SubSeq(sales', 1, Len(sales)) = sales
                      /\ sales'[Len(sales')].product_id = pid
                      /\ sales'[Len(sales')].quantity = q
                 ELSE /\ last'.msg = "Insufficient stock."
                      /\ inventory' = inventory
                      /\ sales' = sales
                      /\ _next_sale_id' = _next_sale_id ]_vars

\* A sale was recorded and the next one, asking for more than is left, was aborted.
C1_Witness ==
    /\ last.op = "register_sale"
    /\ last.msg = "Insufficient stock."
    /\ last.qty > inventory[last.pid].stock
    /\ Len(sales) = 1
    /\ sales[1].client = "Ana"
    /\ inventory[sales[1].product_id].stock
         = inventory[sales[1].product_id].initial_stock - sales[1].quantity

\* C2: in every state reachable by any sequence of preload_demo_sales,
\* register_product, update_product, delete_product and register_sale, the
\* stock of every product of the catalog is a non-negative integer.
C2_StockNeverNegative ==
    \A pid \in DOMAIN inventory : inventory[pid].stock \in Nat

\* The demo sales met a product with less stock than the demo quantity and
\* took what was left.
C2_Witness ==
    /\ last.op = "preload_demo_sales"
    /\ \E i \in 1..Len(sales) :
          /\ sales[i].client = "Eve"
          /\ sales[i].quantity < demo[5].quantity
          /\ inventory[sales[i].product_id].stock = 0

\* C3 (as amended): delete_product on product id p, confirmed with "y": when a
\* record of the sales list has product_id = p the deletion fails with the
\* message about historical sales and the catalog is unchanged; when none has,
\* p is removed and every other product is left unchanged.  Not confirmed, the
\* deletion is cancelled and the catalog is unchanged.  The sales list is
\* unchanged in every case.
C3_DeleteConfirmed ==
    [][ Did("delete_product") =>
          LET p == last'.pid
              hasSale == \E i \in DOMAIN sales : sales[i].product_id = p
          IN  /\ p \in DOMAIN inventory
              /\ sales' = sales
              /\ IF last'.confirm # "y"
                 THEN /\ last'.msg = "Deletion cancelled."
                      /\ inventory' = inventory
                 ELSE IF hasSale
                 THEN /\ last'.msg = "Cannot delete product with historical sales records."
                      /\ inventory' = inventory
                 ELSE /\ last'.msg = "Product deleted."
                      /\ DOMAIN inventory' = DOMAIN inventory \ {p}
                      /\ \A q \in DOMAIN inventory' : inventory'[q] = inventory[q] ]_vars

\* A confirmed deletion of a sold product was refused.
C3_Witness ==
    /\ last.op = "delete_product"
    /\ last.confirm = "y"
    /\ last.msg = "Cannot delete product with historical sales records."
    /\ last.pid \in DOMAIN inventory
    /\ \E i \in DOMAIN sales : sales[i].product_id = last.pid

\* C3 as stated: with a referencing sale the deletion always fails with Conflict
\* and the catalog is unchanged; with none it always succeeds, p is removed and
\* every other product is left unchanged.
C3_AsStated ==
    [][ Did("delete_product") =>
          LET p == last'.pid
              hasSale == \E i \in DOMAIN sales : sales[i].product_id = p
          IN  IF hasSale
              THEN /\ last'.msg = "Cannot delete product with historical sales records."
                   /\ inventory' = inventory
              ELSE /\ DOMAIN inventory' = DOMAIN inventory \ {p}
                   /\ \A q \in DOMAIN inventory' : inventory'[q] = inventory[q] ]_vars
\* C4 (as amended): a valid registration (non-empty name and brand, price >= 0,
\* stock >= 0, warranty >= 0) after any earlier registrations and deletions gets
\* an id no product has had before, deleted ones included; the stored product
\* holds the name and brand as typed (trimmed), the category as typed or
\* "General" when it was left blank, the price rounded to two decimals, the
\* stock and the warranty as typed, and initial_stock equal to stock; no other
\* product and no sale changes.
C4_RegisterFreshId ==
    [][ (Did("register_product") /\ last'.msg = "Product registered"
            /\ ~float_(last'.price_in).nan) =>
          LET id == last'.id
              p == inventory'[id]
              mills == float_(last'.price_in).mills
          IN  /\ id \notin usedIds
              /\ DOMAIN inventory' = DOMAIN inventory \cup {id}
              /\ \A q \in DOMAIN inventory : inventory'[q] = inventory[q]
              /\ sales' = sales
              /\ p.name = strip(last'.name_in) /\ p.name # ""
              /\ p.brand = strip(last'.brand_in) /\ p.brand # ""
              /\ p.category = IF strip(last'.category_in) = "" THEN "General"
                              ELSE strip(last'.category_in)
              /\ ~p.price.nan
              /\ 10 * p.price.cents - mills \in -5..5
              /\ p.stock = int_(last'.stock_in).val /\ p.stock >= 0
              /\ p.warranty_months = int_(last'.warranty_in).val
              /\ p.initial_stock = p.stock ]_vars

\* A product was registered after another had been deleted, with a price of
\* three decimals and no category.
C4_Witness ==
    /\ last.op = "register_product"
    /\ last.msg = "Product registered"
    /\ \E u \in usedIds : u \notin DOMAIN inventory /\ u < last.id
    /\ last.price_in = "1.254"
    /\ last.category_in = ""
    /\ inventory[last.id].initial_stock = inventory[last.id].stock

\* C4 as stated: the id is unused and the stored product reflects exactly the
\* supplied fields (name and brand taken as trimmed), with initial_stock = stock.
C4_AsStated ==
    [][ (Did("register_product") /\ last'.msg = "Product registered"
            /\ ~float_(last'.price_in).nan) =>
          LET id == last'.id
              p == inventory'[id]
          IN  /\ id \notin usedIds
              /\ p.name = strip(last'.name_in)
              /\ p.brand = strip(last'.brand_in)
              /\ p.category = strip(last'.category_in)
              /\ ~p.price.nan
              /\ 10 * p.price.cents = float_(last'.price_in).mills
              /\ p.stock = int_(last'.stock_in).val
              /\ p.warranty_months = int_(last'.warranty_in).val
              /\ p.initial_stock = p.stock ]_vars

\* round(value, 2) at an exact half as Python documents it for decimal values:
\* to the nearest even.
C5_RoundHalfEven(num, den) ==
    LET q == num \div den
        r == num % den
    IN  IF 2 * r < den THEN q
        ELSE IF 2 * r > den THEN q + 1
        ELSE IF q % 2 = 0 THEN q ELSE q + 1

\* C5 as stated: every sale record, made by register_sale or by
\* preload_demo_sales, has gross = round(unit_price * quantity, 2) and
\* net = round(gross * (1 - discount_pct / 100), 2), the amounts taken as
\* decimal values of two places (round at an exact half going to the even cent).
C5_AsStated ==
    \A i \in DOMAIN sales :
        LET s == sales[i]
        IN  (~s.unit_price.nan) =>
              /\ ~s.gross.nan /\ ~s.net.nan
              /\ s.gross.cents = s.unit_price.cents * s.quantity
              /\ s.net.cents = C5_RoundHalfEven(s.gross.cents * (100 - s.discount_pct), 100)

\* C6: the sales list is append-only and its records immutable: in every step
\* (update_product and delete_product included) every record keeps all its
\* fields and its place, and the sale ids are 1, 2, 3, ... in the order of
\* recording.
C6_SalesAppendOnly ==
    [][ /\ Len(sales') >= Len(sales)
        /\ SubSeq(sales', 1, Len(sales)) = sales
        /\ \A i \in DOMAIN sales' : sales'[i].sale_id = i
        /\ _next_sale_id' = Len(sales') + 1 ]_vars

\* Two sales are on record and the product of the first was renamed since.
C6_Witness ==
    /\ Len(sales) >= 2
    /\ sales[1].product_id \in DOMAIN inventory
    /\ inventory[sales[1].product_id].name # sales[1].product_name
    /\ last.op = "update_product"
    /\ last.pid = sales[1].product_id

\* What C7 calls a valid value.
C7_ValidText(text) == strip(text) # ""

C7_ValidPrice(text) ==
    /\ strip(text) # ""
    /\ ~float_(strip(text)).err
    /\ ~float_(strip(text)).nan
    /\ float_(strip(text)).mills >= 0

C7_ValidInt(text) ==
    /\ strip(text) # ""
    /\ ~int_(strip(text)).err
    /\ int_(strip(text)).val >= 0

\* C7 as stated: update_product changes exactly the fields supplied with a valid
\* value (non-empty name, brand, category; non-negative price, stock, warranty);
\* a field left blank or given an invalid value keeps its old value while the
\* valid ones of the same call are applied; initial_stock, the product id, every
\* other product and the sales list never change.
C7_AsStated ==
    [][ Did("update_product") =>
          LET pid == last'.pid
              f == last'.form
              old == inventory[pid]
              new == inventory'[pid]
          IN  /\ DOMAIN inventory' = DOMAIN inventory
              /\ \A q \in DOMAIN inventory \ {pid} : inventory'[q] = inventory[q]
              /\ sales' = sales
              /\ new.initial_stock = old.initial_stock
              /\ new.name = IF C7_ValidText(f.name) THEN strip(f.name) ELSE old.name
              /\ new.brand = IF C7_ValidText(f.brand) THEN strip(f.brand) ELSE old.brand
              /\ new.category = IF C7_ValidText(f.category) THEN strip(f.category)
                                ELSE old.category
              /\ IF C7_ValidPrice(f.price_input)
                 THEN /\ ~new.price.nan
                      /\ 10 * new.price.cents - float_(strip(f.price_input)).mills \in -5..5
                 ELSE new.price = old.price
              /\ new.stock = IF C7_ValidInt(f.stock_input)
                             THEN int_(strip(f.stock_input)).val ELSE old.stock
              /\ new.warranty_months = IF C7_ValidInt(f.warranty_input)
                                       THEN int_(strip(f.warranty_input)).val
                                       ELSE old.warranty_months ]_vars

\* C8 as stated: every sale record has a client category that is one of
\* regular, vip, employee, wholesale; a client type typed at register_sale that
\* is none of these (or is empty) is recorded as regular.
C8_AsStated ==
    \A i \in DOMAIN sales :
        sales[i].client_type \in {"regular", "vip", "employee", "wholesale"}

\* The units of product pid sold, summed over the sales from record i on.
RECURSIVE C9_UnitsSold(_, _)
C9_UnitsSold(pid, i) ==
    IF i > Len(sales) THEN 0
    ELSE (IF sales[i].product_id = pid THEN sales[i].quantity ELSE 0)
         + C9_UnitsSold(pid, i + 1)

\* C9: inventory_performance classifies every catalog product, with
\* turnover = units sold / initial_stock * 100 (0 when initial_stock = 0): out
\* of stock when the stock is 0; else fast moving when turnover > 50; else slow
\* moving when turnover < 10 (nothing sold and stock > 0 included); else OK, so
\* turnover of exactly 50 and of exactly 10 with stock > 0 are OK.
C9_Classification ==
    (last.op = "inventory_performance" /\ last.msg = "Inventory performance:") =>
        /\ DOMAIN last.status = DOMAIN inventory
        /\ \A pid \in DOMAIN inventory :
              LET p == inventory[pid]
                  units == C9_UnitsSold(pid, 1)
                  init == p.initial_stock
                  st == last.status[pid]
              IN  /\ (st = "OUT OF STOCK") <=> (p.stock = 0)
                  /\ (st = "FAST MOVING") <=>
                        (p.stock # 0 /\ init > 0 /\ 100 * units > 50 * init)
                  /\ (st = "SLOW MOVING") <=>
                        (/\ p.stock # 0
                         /\ ~(init > 0 /\ 100 * units > 50 * init)
                         /\ (init = 0 \/ 100 * units < 10 * init))
                  /\ (st = "OK") <=>
                        (/\ p.stock # 0 /\ init > 0
                         /\ 100 * units <= 50 * init
                         /\ 100 * units >= 10 * init)
                  /\ (p.stock > 0 /\ units = 0) => st = "SLOW MOVING"

\* The report classed a product at exactly 50 % and one at exactly 10 %, both
\* with stock left, as OK.
C9_Witness ==
    /\ last.op = "inventory_performance"
    /\ last.msg = "Inventory performance:"
    /\ \E a, b \in DOMAIN inventory :
          /\ inventory[a].stock > 0 /\ inventory[a].initial_stock > 0
          /\ 100 * C9_UnitsSold(a, 1) = 50 * inventory[a].initial_stock
          /\ last.status[a] = "OK"
          /\ inventory[b].stock > 0 /\ inventory[b].initial_stock > 0
          /\ 100 * C9_UnitsSold(b, 1) = 10 * inventory[b].initial_stock
          /\ last.status[b] = "OK"

\* C10: referential integrity: in every reachable state the product_id of every
\* sale record is the id of a product in the catalog, so top_n_products never
\* prints the "Deleted product" placeholder.
C10_ReferentialIntegrity ==
    /\ \A i \in DOMAIN sales : sales[i].product_id \in DOMAIN inventory
    /\ (last.op = "top_n_products" /\ last.msg = "Top") =>
          \A r \in DOMAIN last.lines :
              /\ last.lines[r].name # "Deleted product"
              /\ last.lines[r].name = inventory[last.lines[r].pid].name

\* The top products were printed after a product had been deleted.
C10_Witness ==
    /\ last.op = "top_n_products"
    /\ last.msg = "Top"
    /\ Len(last.lines) >= 1
    /\ \E u \in usedIds : u \notin DOMAIN inventory
====
